---------------------------- MODULE Spec2Model ----------------------------
(***************************************************************************)
(* nicovision.ImageRecorder: the frame-acquisition-to-persistence          *)
(* pipeline.  Three kinds of thread run the program:                       *)
(*   - the caller, which runs the public methods of ImageRecorder one      *)
(*     statement at a time (pc is its position);                           *)
(*   - the capture thread of the VideoDevice, which acquires a frame and   *)
(*     calls every registered observer, among them                         *)
(*     ImageRecorder._callback;                                            *)
(*   - the worker threads of the ImageWriter, which take jobs from the     *)
(*     queue and write them.                                               *)
(* ImageRecorder is translated from ImageRecorder.py.  VideoDevice and     *)
(* ImageWriter are imported by it (lines 8-9) and are modelled from the    *)
(* description of the Device and of the Writer Pool.                       *)
(***************************************************************************)
EXTENDS Integers, Sequences, FiniteSets

\* Frames the capture loop acquires in one run of the model.
MaxFrames == 1

\* Calls of public methods the caller makes in one run of the model.
MaxCalls == 3

\* writer_threads, the default of ImageRecorder.__init__.
WriterThreads == 2

VARIABLES
    device,        \* self._device: "none" (from_device returned None) or "dev"
    limits,        \* the calls and the frames of one run of the model
    devOpen,       \* self._device._open
    devCallbacks,  \* the observers registered with the device, in order
    target,        \* self._target
    wOpen,         \* self._image_writer._open
    wEnabled,      \* the gate set by ImageWriter.enable_write
    wStop,         \* the workers have been told to stop once the queue is empty
    queue,         \* the write jobs queued in the ImageWriter
    wk,            \* per worker: its state and the job it holds
    written,       \* the jobs passed to a write attempt, in order (by number)
    pc,            \* the caller's position
    call,          \* the call in progress or last returned, with its result
    calls,         \* number of calls made so far
    capPc,         \* the capture thread's position
    cur,           \* the frame being delivered, or the last one delivered:
                   \*   id, ok      the frame and whether it was acquired
                   \*   pending     the observers still to be called
                   \*   iso         iso_time of the running _callback
                   \*   inv, tr     calls of _callback and of custom_callback
                   \*   got         the observers whose call has returned
                   \*   enter       the caller's call count when _callback was
                   \*               entered in a recording at rest, else -1
                   \*   cont        acquired while recording, caller at rest
                   \*   calls0, nth the call it was acquired during, and its
                   \*               rank among the frames acquired during it
    nframes,       \* frames acquired so far (also the clock)
    jobsLog,       \* history: every job ever enqueued, in order
    gateReq        \* history: the state last passed to enable_write

vars == <<device, limits, devOpen, devCallbacks, target, wOpen, wEnabled, wStop, queue,
          wk, written, pc, call, calls, capPc, cur, nframes, jobsLog,
          gateReq>>

conf == <<device, limits>>
devVars == <<conf, devOpen, devCallbacks>>
poolVars == <<wOpen, wEnabled, wStop, queue, wk, written, jobsLog>>
capVars == <<capPc, cur, nframes>>

-----------------------------------------------------------------------------
(* Paths.  A path is a name, whether it still holds the placeholder '{}',   *)
(* and the time stamp that was put into it.                                 *)

\* 'picture-{}.png', the default of __init__ and of start_recording.
DefaultTarget == [name |-> "picture", hole |-> TRUE, time |-> 0]

\* A path of the caller's without a placeholder.
FixedPath == [name |-> "fixed", hole |-> FALSE, time |-> 0]

\* The paths a caller passes to start_recording and save_image_to.
CallerPaths == {DefaultTarget, FixedPath}

\* datetime.datetime.today().isoformat(): the clock advances with every frame.
Now == nframes

\* str.format: the placeholder is replaced by the time stamp; a path without
\* placeholder is returned as it is.
Format(path, isoTime) ==
    IF path.hole THEN [name |-> path.name, hole |-> FALSE, time |-> isoTime]
    ELSE path

\* 'picture-' + isoformat() + '.png' of save_one_image.
OneImagePath == [name |-> "picture", hole |-> FALSE, time |-> Now]

NoJob == [n |-> 0, frame |-> 0, dest |-> FixedPath]

-----------------------------------------------------------------------------
(* The recorder's state, read off the device and the caller's position.     *)

SingleShotPcs == {"sit_open", "sit_add", "sit_sleep", "sit_clean"}

RecState ==
    IF pc \in SingleShotPcs THEN "SingleShot"
    ELSE IF devOpen /\ (\E i \in DOMAIN devCallbacks : devCallbacks[i] = "rec")
         THEN "Continuous"
         ELSE "Idle"

\* A public method is entered: the record of the call.
Enter(name, wait) ==
    [name |-> name, wait |-> wait, from |-> RecState, val |-> "running",
     cause |-> "none", opened |-> {}]

Return(val, cause) == [call EXCEPT !.val = val, !.cause = cause]

\* The call in progress has called open() of what ("device" or "pool").
Opened(what) == [call EXCEPT !.opened = call.opened \cup {what}]

\* ImageWriter() built without the writer_threads of the constructor.
WriterPoolSize_Default(writer_threads) == WriterThreads

\* ImageWriter(writer_threads), line 70: the size of the pool.
WriterPoolSize(writer_threads) == writer_threads

\* The workers of the pool.
Workers == DOMAIN wk

\* The recorder as __init__ leaves it, for a run of maxCalls calls and
\* maxFrames frames.
InitWith(writer_threads, maxCalls, maxFrames) ==
    /\ device \in {"dev", "none"}
    /\ limits = [calls |-> maxCalls, frames |-> maxFrames]
    /\ devOpen = FALSE
    /\ devCallbacks = <<>>
    /\ target = DefaultTarget
    /\ wOpen = FALSE
    /\ wEnabled = TRUE
    /\ wStop = FALSE
    /\ queue = <<>>
    /\ wk = [w \in 1..WriterPoolSize(writer_threads) |->
                [st |-> "off", job |-> NoJob]]
    /\ written = <<>>
    /\ pc = "idle"
    /\ call = [name |-> "init", wait |-> FALSE, from |-> "Idle", val |-> "ok",
               cause |-> "none", opened |-> {}]
    /\ calls = 0
    /\ capPc = "idle"
    /\ cur = [id |-> 0, ok |-> FALSE, pending |-> <<>>, iso |-> 0, inv |-> 0,
              tr |-> 0, got |-> <<>>, enter |-> -1, cont |-> FALSE,
              calls0 |-> 0, nth |-> 0]
    /\ nframes = 0
    /\ jobsLog = <<>>
    /\ gateReq = TRUE

Init == InitWith(WriterThreads, MaxCalls, MaxFrames)

CanCall == pc = "idle" /\ calls < limits.calls

-----------------------------------------------------------------------------
(* VideoDevice (imported, line 9): the Device.                              *)

\* open(): Closed -> Open, the capture loop starts.
DeviceOpen == devOpen' = TRUE

\* close(): Open -> Closed; it does not wait for a delivery in progress.
DeviceClose == devOpen' = FALSE

\* add_callback(fn): one more registration, after those there are.
DeviceAddCallback(fn) == devCallbacks' = Append(devCallbacks, fn)

\* clean_callbacks(): no observer is left.
DeviceCleanCallbacks == devCallbacks' = <<>>

(* ImageWriter (imported, line 8): the Writer Pool.                         *)

\* open(): the workers start; nothing happens when the pool is open.
WriterOpen ==
    IF wOpen THEN UNCHANGED <<wOpen, wStop, wk>>
    ELSE /\ wOpen' = TRUE
         /\ wStop' = FALSE
         /\ wk' = [w \in Workers |-> [st |-> "idle", job |-> NoJob]]

\* write_image(path, image): a job is queued when the pool is open and the
\* gate is up; otherwise the frame is dropped.
WriterWriteImage(dest, frame) ==
    IF wOpen /\ wEnabled
    THEN LET job == [n |-> Len(jobsLog) + 1, frame |-> frame, dest |-> dest]
         IN  /\ queue' = Append(queue, job)
             /\ jobsLog' = Append(jobsLog, job)
    ELSE UNCHANGED <<queue, jobsLog>>

\* enable_write(state): the gate.
WriterEnableWrite(state) == wEnabled' = state

\* close(), first half: no job is accepted any more and the workers are told
\* to stop once the queue is empty.
WriterCloseSignal == wOpen' = FALSE /\ wStop' = TRUE

\* close(), second half: every worker has terminated.
WriterJoined == \A w \in Workers : wk[w].st = "off"

\* A worker takes the oldest job of the queue.
WorkerTake(w) ==
    /\ wk[w].st = "idle"
    /\ queue # <<>>
    /\ wk' = [wk EXCEPT ![w] = [st |-> "busy", job |-> Head(queue)]]
    /\ queue' = Tail(queue)
    /\ UNCHANGED <<devVars, target, wOpen, wEnabled, wStop, written, pc,
                   call, calls, capVars, jobsLog, gateReq>>

\* The worker's write attempt.  Whether the storage reports success or the
\* failure is logged, the job is gone and the worker goes on.
WorkerWrite(w) ==
    /\ wk[w].st = "busy"
    /\ written' = Append(written, wk[w].job.n)
    /\ wk' = [wk EXCEPT ![w] = [st |-> "idle", job |-> NoJob]]
    /\ UNCHANGED <<devVars, target, wOpen, wEnabled, wStop, queue, pc, call,
                   calls, capVars, jobsLog, gateReq>>

\* A worker told to stop terminates when it finds the queue empty.
WorkerExit(w) ==
    /\ wk[w].st = "idle"
    /\ wStop
    /\ queue = <<>>
    /\ wk' = [wk EXCEPT ![w] = [st |-> "off", job |-> NoJob]]
    /\ UNCHANGED <<devVars, target, wOpen, wEnabled, wStop, queue, written, pc, call, calls, capVars, jobsLog, gateReq>>

\* The capture loop acquires a frame (or fails to) and is about to call the
\* observers registered at this moment.
Acquire ==
    /\ capPc = "idle"
    /\ devOpen
    /\ nframes < limits.frames
    /\ \E ok \in BOOLEAN :
          cur' = [id |-> nframes + 1, ok |-> ok, pending |-> devCallbacks,
                  iso |-> 0, inv |-> 0, tr |-> 0, got |-> <<>>, enter |-> -1,
                  cont |-> (RecState = "Continuous" /\ pc = "idle"
                            /\ wOpen /\ wEnabled),
                  calls0 |-> calls,
                  nth |-> IF cur.id > 0 /\ cur.calls0 = calls
                          THEN cur.nth + 1 ELSE 1]
    /\ nframes' = nframes + 1
    /\ capPc' = IF devCallbacks = <<>> THEN "idle" ELSE "deliver"
    /\ UNCHANGED <<devVars, target, poolVars, pc, call, calls, gateReq>>

\* The observer just called has returned: the next one, or the loop goes on.
NextObserver ==
    /\ cur' = [cur EXCEPT !.got = Append(cur.got, Head(cur.pending)),
                            !.pending = Tail(cur.pending)]
    /\ capPc' = IF Tail(cur.pending) = <<>> THEN "idle" ELSE "deliver"

-----------------------------------------------------------------------------
(* ImageRecorder: the capture thread's side.                                *)

\* custom_callback(iso_time, frame): the frame as it is.
CustomCallback(isoTime, frame) == frame

\* What _callback finds when it is entered: the caller's call count when the
\* recorder is Continuous, the caller at rest, the pool open and the gate up.
EnteredAt ==
    IF RecState = "Continuous" /\ pc = "idle" /\ wOpen /\ wEnabled
    THEN calls ELSE -1

\* _callback without the test of rval.
CallbackEnter_IgnoresRval ==
    /\ capPc = "deliver"
    /\ Head(cur.pending) = "rec"
    /\ cur' = [cur EXCEPT !.inv = cur.inv + 1, !.iso = Now, !.tr = cur.tr + 1,
                            !.enter = EnteredAt]
    /\ capPc' = "write"
    /\ UNCHANGED <<devVars, target, poolVars, pc, call, calls, nframes,
                   gateReq>>

\* _callback that raises on a failed frame: the delivery of the frame ends
\* there, whoever was still to be called.
CallbackEnter_RaisesOnFailure ==
    /\ capPc = "deliver"
    /\ Head(cur.pending) = "rec"
    /\ IF cur.ok
       THEN /\ cur' = [cur EXCEPT !.inv = cur.inv + 1, !.iso = Now,
                                    !.tr = cur.tr + 1,
                                    !.enter = EnteredAt]
            /\ capPc' = "write"
       ELSE /\ cur' = [cur EXCEPT !.inv = cur.inv + 1,
                                    !.got = Append(cur.got, "rec"),
                                    !.pending = <<>>]
            /\ capPc' = "idle"
    /\ UNCHANGED <<devVars, target, poolVars, pc, call, calls, nframes,
                   gateReq>>

\* _callback(rval, frame), lines 196-200: on success the time is read and
\* custom_callback is called; on failure the callback returns at once.
CallbackEnter ==
    /\ capPc = "deliver"
    /\ Head(cur.pending) = "rec"
    /\ IF cur.ok
       THEN /\ cur' = [cur EXCEPT !.inv = cur.inv + 1, !.iso = Now,
                                    !.tr = cur.tr + 1,
                                    !.enter = EnteredAt]
            /\ capPc' = "write"
       ELSE /\ cur' = [cur EXCEPT !.inv = cur.inv + 1,
                                    !.got = Append(cur.got, "rec"),
                                    !.pending = Tail(cur.pending)]
            /\ capPc' = IF Tail(cur.pending) = <<>> THEN "idle" ELSE "deliver"
    /\ UNCHANGED <<devVars, target, poolVars, pc, call, calls, nframes,
                   gateReq>>

\* _callback putting the job into the writer's queue itself.
CallbackWrite_PutsInQueue ==
    /\ capPc = "write"
    /\ LET job == [n |-> Len(jobsLog) + 1, frame |-> cur.id,
                   dest |-> Format(target, cur.iso)]
       IN  /\ queue' = Append(queue, job)
           /\ jobsLog' = Append(jobsLog, job)
    /\ NextObserver
    /\ UNCHANGED <<devVars, target, wOpen, wEnabled, wStop, wk, written,
                   pc, call, calls, nframes, gateReq>>

\* _callback that puts the time stamp into every path.
CallbackWrite_StampsAlways ==
    /\ capPc = "write"
    /\ WriterWriteImage([name |-> target.name, hole |-> FALSE, time |-> cur.iso],
                        CustomCallback(cur.iso, cur.id))
    /\ NextObserver
    /\ UNCHANGED <<devVars, target, wOpen, wEnabled, wStop, wk, written,
                   pc, call, calls, nframes, gateReq>>

\* _callback, lines 202-203: write_image(self._target.format(iso_time), frame).
CallbackWrite ==
    /\ capPc = "write"
    /\ WriterWriteImage(Format(target, cur.iso), CustomCallback(cur.iso, cur.id))
    /\ NextObserver
    /\ UNCHANGED <<devVars, target, wOpen, wEnabled, wStop, wk, written,
                   pc, call, calls, nframes, gateReq>>

-----------------------------------------------------------------------------
(* ImageRecorder: the caller's side, one action per statement.              *)

\* enable_write that does not pass the state on to the writer.
EnableWrite_NotForwarded(state) ==
    /\ CanCall
    /\ gateReq' = state
    /\ call' = [Enter("enable_write", FALSE) EXCEPT !.val = "ok"]
    /\ calls' = calls + 1
    /\ UNCHANGED <<devVars, target, poolVars, pc, capVars>>

\* enable_write(state).
EnableWrite(state) ==
    /\ CanCall
    /\ WriterEnableWrite(state)
    /\ gateReq' = state
    /\ call' = [Enter("enable_write", FALSE) EXCEPT !.val = "ok"]
    /\ calls' = calls + 1
    /\ UNCHANGED <<devVars, target, wOpen, wStop, queue, wk, written,
                   pc, capVars, jobsLog>>

\* What the call in progress returns for save_image_to's result b:
\* save_one_image turns True into the path and False into ''.
Result(b) ==
    IF call.name = "save_one_image" THEN (IF b THEN "path" ELSE "")
    ELSE (IF b THEN "True" ELSE "False")

\* save_image_to(path), lines 146-149, entered as name (save_one_image calls
\* it with a path of its own, line 135).
SaveImageToEnter(name, path) ==
    /\ CanCall
    /\ calls' = calls + 1
    /\ target' = path
    /\ IF device = "none"
       THEN /\ pc' = "idle"
            /\ call' = [Enter(name, FALSE) EXCEPT
                           !.val = IF name = "save_one_image" THEN "" ELSE "False",
                           !.cause = "nodevice"]
       ELSE /\ pc' = "sit_open"
            /\ call' = Enter(name, FALSE)
    /\ UNCHANGED <<devVars, poolVars, capVars, gateReq>>

SaveOneImage == SaveImageToEnter("save_one_image", OneImagePath)

SaveImageTo(path) == SaveImageToEnter("save_image_to", path)

\* Lines 150-151: the device is opened unless it is open; open() may fail,
\* and nothing in save_image_to or save_one_image catches the failure.
SitOpen ==
    /\ pc = "sit_open"
    /\ IF devOpen
       THEN /\ pc' = "sit_add"
            /\ UNCHANGED <<devOpen, call>>
       ELSE \E avail \in BOOLEAN :
              IF avail
              THEN /\ DeviceOpen
                   /\ pc' = "sit_add"
                   /\ call' = Opened("device")
              ELSE /\ pc' = "idle"
                   /\ call' = [Opened("device") EXCEPT
                                  !.val = "raised", !.cause = "openfail"]
                   /\ UNCHANGED devOpen
    /\ UNCHANGED <<conf, devCallbacks, target, poolVars, calls, capVars,
                   gateReq>>

\* Line 152.
SitAddCallback ==
    /\ pc = "sit_add"
    /\ DeviceAddCallback("rec")
    /\ pc' = "sit_sleep"
    /\ UNCHANGED <<conf, devOpen, target, poolVars, call, calls, capVars,
                   gateReq>>

\* Lines 153-154: the sleep is over and the device is closed.
SitSleepClose ==
    /\ pc = "sit_sleep"
    /\ DeviceClose
    /\ pc' = "sit_clean"
    /\ UNCHANGED <<conf, devCallbacks, target, poolVars, call, calls, capVars,
                   gateReq>>

\* Lines 155-156.
SitCleanReturn ==
    /\ pc = "sit_clean"
    /\ DeviceCleanCallbacks
    /\ pc' = "idle"
    /\ call' = Return(Result(TRUE), "none")
    /\ UNCHANGED <<conf, devOpen, target, poolVars, calls, capVars, gateReq>>

\* start_recording(path), line 159.
StartRecording(path) ==
    /\ CanCall
    /\ calls' = calls + 1
    /\ target' = path
    /\ call' = Enter("start_recording", FALSE)
    /\ pc' = "sr_open"
    /\ UNCHANGED <<devVars, poolVars, capVars, gateReq>>

\* start_recording that goes on when open() of the device has failed.
SrOpenDevice_SwallowsFailure ==
    /\ pc = "sr_open"
    /\ IF device = "none"
       THEN /\ pc' = "idle"
            /\ call' = Return("raised", "nodevice")
            /\ UNCHANGED devOpen
       ELSE IF devOpen
       THEN /\ pc' = "sr_writer"
            /\ UNCHANGED <<devOpen, call>>
       ELSE \E avail \in BOOLEAN :
              /\ IF avail THEN DeviceOpen ELSE UNCHANGED devOpen
              /\ pc' = "sr_writer"
              /\ call' = Opened("device")
    /\ UNCHANGED <<conf, devCallbacks, target, poolVars, calls, capVars,
                   gateReq>>

\* Lines 160-161; without a device, self._device._open raises.
SrOpenDevice ==
    /\ pc = "sr_open"
    /\ IF device = "none"
       THEN /\ pc' = "idle"
            /\ call' = Return("raised", "nodevice")
            /\ UNCHANGED devOpen
       ELSE IF devOpen
       THEN /\ pc' = "sr_writer"
            /\ UNCHANGED <<devOpen, call>>
       ELSE \E avail \in BOOLEAN :
              IF avail
              THEN /\ DeviceOpen
                   /\ pc' = "sr_writer"
                   /\ call' = Opened("device")
              ELSE /\ pc' = "idle"
                   /\ call' = [Opened("device") EXCEPT
                                  !.val = "raised", !.cause = "openfail"]
                   /\ UNCHANGED devOpen
    /\ UNCHANGED <<conf, devCallbacks, target, poolVars, calls, capVars,
                   gateReq>>

\* start_recording that leaves the writer as it is.
SrOpenWriter_Skipped ==
    /\ pc = "sr_writer"
    /\ pc' = "sr_add"
    /\ UNCHANGED <<devVars, target, poolVars, call, calls, capVars, gateReq>>

\* start_recording that starts the workers without looking at the writer's
\* _open.
SrOpenWriter_Restarts ==
    /\ pc = "sr_writer"
    /\ wOpen' = TRUE
    /\ wStop' = FALSE
    /\ wk' = [w \in Workers |-> [st |-> "idle", job |-> NoJob]]
    /\ call' = Opened("pool")
    /\ pc' = "sr_add"
    /\ UNCHANGED <<devVars, target, wEnabled, queue, written, jobsLog,
                   calls, capVars, gateReq>>

\* Lines 162-163.
SrOpenWriter ==
    /\ pc = "sr_writer"
    /\ IF ~wOpen
       THEN WriterOpen /\ call' = Opened("pool")
       ELSE UNCHANGED <<wOpen, wStop, wk, call>>
    /\ pc' = "sr_add"
    /\ UNCHANGED <<devVars, target, wEnabled, queue, written, jobsLog,
                   calls, capVars, gateReq>>

\* Line 164, and the return.
SrAddCallback ==
    /\ pc = "sr_add"
    /\ DeviceAddCallback("rec")
    /\ pc' = "idle"
    /\ call' = Return("ok", "none")
    /\ UNCHANGED <<conf, devOpen, target, poolVars, calls, capVars, gateReq>>

\* stop_recording(wait_for_writer), line 176; without a device,
\* self._device.close() raises.
StopRecording(wait) ==
    /\ CanCall
    /\ calls' = calls + 1
    /\ IF device = "none"
       THEN /\ pc' = "idle"
            /\ call' = [Enter("stop_recording", wait) EXCEPT
                           !.val = "raised", !.cause = "nodevice"]
            /\ UNCHANGED devOpen
       ELSE /\ DeviceClose
            /\ pc' = "st_clean"
            /\ call' = Enter("stop_recording", wait)
    /\ UNCHANGED <<conf, devCallbacks, target, poolVars, capVars, gateReq>>

\* stop_recording that never waits for the writer.
StCleanCallbacks_NoWait ==
    /\ pc = "st_clean"
    /\ DeviceCleanCallbacks
    /\ pc' = "idle"
    /\ call' = Return("ok", "none")
    /\ UNCHANGED <<conf, devOpen, target, poolVars, calls, capVars, gateReq>>

\* stop_recording that closes the writer whatever wait_for_writer is.
StCleanCallbacks_AlwaysWait ==
    /\ pc = "st_clean"
    /\ DeviceCleanCallbacks
    /\ pc' = "ww_close"
    /\ UNCHANGED <<conf, devOpen, target, poolVars, call, calls, capVars,
                   gateReq>>

\* stop_recording that empties the writer's queue with the callbacks.
StCleanCallbacks_DropsQueue ==
    /\ pc = "st_clean"
    /\ DeviceCleanCallbacks
    /\ queue' = <<>>
    /\ IF call.wait
       THEN /\ pc' = "ww_close"
            /\ UNCHANGED call
       ELSE /\ pc' = "idle"
            /\ call' = Return("ok", "none")
    /\ UNCHANGED <<conf, devOpen, target, wOpen, wEnabled, wStop, wk, written,
                   jobsLog, calls, capVars, gateReq>>

\* Lines 177-179: the callbacks are removed; then the writer is waited for,
\* or the method returns.
StCleanCallbacks ==
    /\ pc = "st_clean"
    /\ DeviceCleanCallbacks
    /\ IF call.wait
       THEN /\ pc' = "ww_close"
            /\ UNCHANGED call
       ELSE /\ pc' = "idle"
            /\ call' = Return("ok", "none")
    /\ UNCHANGED <<conf, devOpen, target, poolVars, calls, capVars, gateReq>>

\* wait_for_writer(), called by the caller.
WaitForWriter ==
    /\ CanCall
    /\ calls' = calls + 1
    /\ call' = Enter("wait_for_writer", TRUE)
    /\ pc' = "ww_close"
    /\ UNCHANGED <<devVars, target, poolVars, capVars, gateReq>>

\* wait_for_writer that waits for the workers without closing the writer.
WwClose_JoinOnly ==
    /\ pc = "ww_close"
    /\ pc' = "ww_join"
    /\ UNCHANGED <<devVars, target, poolVars, call, calls, capVars, gateReq>>

\* Line 182, self._image_writer.close(): the pool stops accepting jobs ...
WwClose ==
    /\ pc = "ww_close"
    /\ WriterCloseSignal
    /\ pc' = "ww_join"
    /\ UNCHANGED <<devVars, target, wEnabled, queue, wk, written,
                   jobsLog, call, calls, capVars, gateReq>>

\* ... and close() returns when every worker has terminated.
WwJoin ==
    /\ pc = "ww_join"
    /\ WriterJoined
    /\ pc' = "idle"
    /\ call' = Return("ok", "none")
    /\ UNCHANGED <<devVars, target, poolVars, calls, capVars, gateReq>>

-----------------------------------------------------------------------------
Next ==
    \/ \E state \in BOOLEAN : EnableWrite(state)
    \/ SaveOneImage
    \/ \E path \in CallerPaths : SaveImageTo(path)
    \/ SitOpen
    \/ SitAddCallback
    \/ SitSleepClose
    \/ SitCleanReturn
    \/ \E path \in CallerPaths : StartRecording(path)
    \/ SrOpenDevice
    \/ SrOpenWriter
    \/ SrAddCallback
    \/ \E wait \in BOOLEAN : StopRecording(wait)
    \/ StCleanCallbacks
    \/ WaitForWriter
    \/ WwClose
    \/ WwJoin
    \/ Acquire
    \/ CallbackEnter
    \/ CallbackWrite
    \/ \E w \in Workers : WorkerTake(w)
    \/ \E w \in Workers : WorkerWrite(w)
    \/ \E w \in Workers : WorkerExit(w)

Spec == Init /\ [][Next]_vars

-----------------------------------------------------------------------------
(* The threads under a fair scheduler: a thread that can go on does.  The    *)
(* caller is free to make no further call, and the device to deliver no      *)
(* further frame.                                                            *)

\* Calls and frames of a run under the fair scheduler.
FairCalls == 2
FairFrames == 1

InitFair == InitWith(WriterThreads, FairCalls, FairFrames)

\* The caller goes on inside the method it has entered.
CallerRuns ==
    \/ SitOpen \/ SitAddCallback \/ SitSleepClose \/ SitCleanReturn
    \/ SrOpenDevice \/ SrOpenWriter \/ SrAddCallback
    \/ StCleanCallbacks \/ WwClose \/ WwJoin

\* The capture thread goes on with the delivery it has begun.
CaptureRuns == CallbackEnter \/ CallbackWrite

\* A worker thread goes on.
WorkerRuns(w) == WorkerTake(w) \/ WorkerWrite(w) \/ WorkerExit(w)

Fairness ==
    /\ WF_vars(CallerRuns)
    /\ WF_vars(CaptureRuns)
    /\ \A w \in 1..WriterThreads : WF_vars(WorkerRuns(w))

FairSpec == InitFair /\ [][Next]_vars /\ Fairness

-----------------------------------------------------------------------------
(* The recorder built with writer_threads=1, on a longer run of frames.      *)

\* Calls and frames of a run of the recorder with one worker.
OneCalls == 2
OneFrames == 3

InitOne == InitWith(1, OneCalls, OneFrames)

SpecOne == InitOne /\ [][Next]_vars

-----------------------------------------------------------------------------
(* The device with a second observer, registered with it by another user of  *)
(* the device.                                                               *)

\* Calls and frames of a run with the second observer.
FanCalls == 2
FanFrames == 2

InitFan == InitWith(WriterThreads, FanCalls, FanFrames)

\* add_callback of the device, called for the second observer; it is not
\* registered twice.
AddObserver ==
    /\ device = "dev"
    /\ \A i \in DOMAIN devCallbacks : devCallbacks[i] # "obs"
    /\ DeviceAddCallback("obs")
    /\ UNCHANGED <<conf, devOpen, target, poolVars, pc, call, calls, capVars,
                   gateReq>>

\* The capture loop calls the second observer, which returns.
ObserverCalled ==
    /\ capPc = "deliver"
    /\ Head(cur.pending) = "obs"
    /\ cur' = [cur EXCEPT !.got = Append(cur.got, "obs"),
                            !.pending = Tail(cur.pending)]
    /\ capPc' = IF Tail(cur.pending) = <<>> THEN "idle" ELSE "deliver"
    /\ UNCHANGED <<devVars, target, poolVars, pc, call, calls, nframes,
                   gateReq>>

\* The caller records and stops recording; the other user registers its
\* observer when it likes.
NextFan ==
    \/ StartRecording(DefaultTarget)
    \/ SrOpenDevice
    \/ SrOpenWriter
    \/ SrAddCallback
    \/ \E wait \in BOOLEAN : StopRecording(wait)
    \/ StCleanCallbacks
    \/ WwClose
    \/ WwJoin
    \/ Acquire
    \/ CallbackEnter
    \/ CallbackWrite
    \/ \E w \in Workers : WorkerTake(w)
    \/ \E w \in Workers : WorkerWrite(w)
    \/ \E w \in Workers : WorkerExit(w)
    \/ AddObserver
    \/ ObserverCalled

SpecFan == InitFan /\ [][NextFan]_vars

-----------------------------------------------------------------------------
(* Vocabulary of the properties.                                            *)

\* The jobs (by number) enqueued for the frames first..last.
JobsOfFrames(first, last) ==
    {i \in 1..Len(jobsLog) : jobsLog[i].frame \in first..last}

\* The jobs are enqueued in the order of their frames.
JobsInFrameOrder ==
    \A i, j \in 1..Len(jobsLog) :
        i < j => jobsLog[i].frame <= jobsLog[j].frame

\* The method name has returned val and the caller has made no call since.
Returned(name, val) == pc = "idle" /\ call.name = name /\ call.val = val

\* The last frame was acquired after the caller's last call was entered, its
\* delivery is over and _callback has been called for it.
FrameSinceLastCall ==
    capPc = "idle" /\ cur.id > 0 /\ cur.calls0 = calls /\ cur.inv > 0

\* A step of the caller.
CallerStep == pc' # pc \/ calls' # calls

\* The numbers of the jobs passed to a write attempt.
WrittenJobs == {written[i] : i \in 1..Len(written)}

-----------------------------------------------------------------------------
\* C1: a frame delivered with success while the recorder is Continuous (Writer
\* Pool open, writing enabled, no call of the caller's since start_recording
\* returned) puts exactly one job into the Writer Pool, and the jobs are
\* enqueued in the order of the frames; also when start_recording was called
\* more than once before.
C1_OneJobPerFrameInOrder ==
    (FrameSinceLastCall /\ pc = "idle" /\ cur.ok /\ cur.cont)
        => /\ Cardinality(JobsOfFrames(cur.id, cur.id)) = 1
           /\ JobsInFrameOrder

\* C2: while the state last passed to enable_write is false no step enqueues
\* a job, and a call of enable_write leaves the pool's open flag, its stop
\* signal and its workers as they are.
C2_GateDownNoJob ==
    [][/\ ~gateReq => (jobsLog' = jobsLog /\ Len(queue') <= Len(queue))
       /\ (call'.name = "enable_write" /\ calls' # calls)
             => (wOpen' = wOpen /\ wStop' = wStop /\ wk' = wk)]_vars

\* A frame was delivered with success to _callback while the gate was down and
\* the pool open: nothing was enqueued and the workers are still there.
C2_Witness ==
    /\ FrameSinceLastCall /\ cur.ok /\ cur.tr > 0
    /\ Returned("enable_write", "ok")
    /\ ~gateReq /\ wOpen
    /\ jobsLog = <<>>
    /\ \A w \in Workers : wk[w].st = "idle"

\* C3: save_one_image called in Idle on a device that opens, and during which
\* a frame was delivered with success: exactly one frame was captured, the
\* jobs created for the call name exactly one file, and on return the device
\* is closed and the recorder Idle.
C3_OneShotOneFile ==
    (Returned("save_one_image", "path") /\ call.from = "Idle"
       /\ FrameSinceLastCall /\ cur.ok /\ cur.tr > 0)
        => /\ cur.nth = 1
           /\ Cardinality({jobsLog[i].dest :
                             i \in JobsOfFrames(cur.id - cur.nth + 1, cur.id)}) = 1
           /\ ~devOpen
           /\ RecState = "Idle"

\* C4: save_one_image on a device that could not be created or could not be
\* opened returns '', and leaves no observer on the closed device, so that no
\* job is created.
C4_NoDeviceReturnsEmpty ==
    (pc = "idle" /\ call.name = "save_one_image"
       /\ call.cause \in {"nodevice", "openfail"})
        => /\ call.val = ""
           /\ ~devOpen
           /\ devCallbacks = <<>>

\* C5: when stop_recording(wait_for_writer=True) or wait_for_writer() has
\* returned, every job enqueued has been passed to a write attempt, the queue
\* is empty and every worker has terminated.
C5_DrainComplete ==
    (Returned("wait_for_writer", "ok")
       \/ (Returned("stop_recording", "ok") /\ call.wait))
        => /\ WrittenJobs = 1..Len(jobsLog)
           /\ queue = <<>>
           /\ \A w \in Workers : wk[w].st = "off"

\* stop_recording(True) has returned after two jobs had been enqueued.
C5_Witness ==
    /\ Returned("stop_recording", "ok") /\ call.wait
    /\ Len(jobsLog) >= 2
    /\ Len(written) = Len(jobsLog)

\* C6: when start_recording called in Idle has returned, the Writer Pool is
\* open, the device is open and _callback is registered: the recorder is
\* Continuous.
C6_StartRecordingContinuous ==
    (Returned("start_recording", "ok") /\ call.from = "Idle")
        => /\ wOpen
           /\ devOpen
           /\ \E i \in DOMAIN devCallbacks : devCallbacks[i] = "rec"
           /\ RecState = "Continuous"

\* start_recording has returned, called in Idle after an earlier call had
\* the device open (a frame was acquired then) and closed it again.
C6_Witness ==
    /\ Returned("start_recording", "ok") /\ call.from = "Idle"
    /\ cur.id > 0 /\ cur.calls0 < calls
    /\ RecState = "Continuous"

\* What holds when stop_recording called in Continuous has returned, whatever
\* wait_for_writer is.
StopRecordingReturned ==
    Returned("stop_recording", "ok") /\ call.from = "Continuous"

DeviceStopped == ~devOpen /\ devCallbacks = <<>> /\ RecState = "Idle"

\* C7 as stated: when stop_recording called in Continuous has returned, the
\* device is closed without observers and the recorder is Idle; with
\* wait_for_writer the pool is closed and its queue empty, without it the
\* pool is open.
C7_AsStated ==
    StopRecordingReturned
        => /\ DeviceStopped
           /\ call.wait => (~wOpen /\ queue = <<>>)
           /\ ~call.wait => wOpen

\* C7 as amended: the same, except that without wait_for_writer the pool is
\* left as it was when stop_recording was called: no step of
\* stop_recording(False) changes the pool's open flag, its stop signal, its
\* queue or its workers.
C7_StopRecording ==
    [][/\ StopRecordingReturned'
             => /\ DeviceStopped'
                /\ call'.wait => (~wOpen' /\ queue' = <<>>)
       /\ (CallerStep /\ call'.name = "stop_recording" /\ ~call'.wait)
             => (wOpen' = wOpen /\ wStop' = wStop /\ queue' = queue
                 /\ wk' = wk)]_vars

\* stop_recording(False) has returned with the pool open and a job still in
\* its queue.
C7_Witness ==
    /\ StopRecordingReturned /\ ~call.wait
    /\ wOpen
    /\ queue # <<>>

\* C8: the recorder changes state only by save_one_image / save_image_to
\* (Idle -> SingleShot -> Idle), start_recording (Idle -> Continuous) and
\* stop_recording (Continuous -> Idle).
C8_TransitionsOfTheStateMachine ==
    [][RecState' # RecState =>
         \/ /\ RecState = "Idle" /\ RecState' = "SingleShot"
            /\ call'.name \in {"save_one_image", "save_image_to"}
         \/ /\ RecState = "SingleShot" /\ RecState' = "Idle"
            /\ call'.name \in {"save_one_image", "save_image_to"}
         \/ /\ RecState = "Idle" /\ RecState' = "Continuous"
            /\ call'.name = "start_recording"
         \/ /\ RecState = "Continuous" /\ RecState' = "Idle"
            /\ call'.name = "stop_recording"]_vars

C10_FailedFrameIsNoOp ==
    [][(capPc = "deliver" /\ ~cur.ok /\ cur'.inv # cur.inv)
          => /\ jobsLog' = jobsLog /\ queue' = queue
             /\ cur'.tr = cur.tr
             /\ target' = target
             /\ wOpen' = wOpen /\ wEnabled' = wEnabled /\ wStop' = wStop
             /\ devOpen' = devOpen /\ devCallbacks' = devCallbacks
             /\ capPc' \in {"deliver", "idle"}]_vars

\* _callback was called with success=false during a recording: nothing was
\* enqueued and the recording goes on.
C10_Witness ==
    /\ FrameSinceLastCall /\ ~cur.ok
    /\ Returned("start_recording", "ok")
    /\ cur.tr = 0 /\ jobsLog = <<>>
    /\ RecState = "Continuous" /\ wOpen

\* The job numbered n is in the queue, in a worker's hands or written.
JobKept(n) ==
    \/ \E i \in DOMAIN queue : queue[i].n = n
    \/ \E w \in Workers : wk[w].st = "busy" /\ wk[w].job.n = n
    \/ n \in WrittenJobs

\* C11: closing the device cancels no queued work.  The step that closes the
\* device (in stop_recording and in save_image_to) and the step that removes
\* the callbacks leave the queue, the workers and the written jobs as they
\* are; the queue loses a job only to a worker that takes its head; every job
\* enqueued is in the queue, in a worker's hands or written; and under the
\* fair scheduler every job enqueued is in the end passed to a write attempt,
\* whether or not the device has been closed since: again and again all the
\* jobs enqueued so far are written.
C11_QueuedJobsSurviveClose ==
    /\ [][/\ ((devOpen /\ ~devOpen') \/ (devCallbacks # <<>> /\ devCallbacks' = <<>>))
              => (queue' = queue /\ wk' = wk /\ written' = written)
          /\ (queue' # queue /\ Len(queue') <= Len(queue))
              => (/\ queue # <<>> /\ queue' = Tail(queue)
                  /\ \E w \in Workers :
                        /\ wk[w].st = "idle"
                        /\ wk'[w] = [st |-> "busy", job |-> Head(queue)])
          /\ \A n \in 1..Len(jobsLog') : JobKept(n)']_vars
    /\ []<>(WrittenJobs = 1..Len(jobsLog))

\* stop_recording(False) has returned, the device is closed, and a job
\* enqueued by the recording is in a worker's hands while the pool is open.
C11_Witness ==
    /\ StopRecordingReturned /\ ~call.wait
    /\ ~devOpen /\ wOpen
    /\ jobsLog # <<>>
    /\ \E w \in Workers : wk[w].st = "busy" /\ wk[w].job.frame = cur.id

\* wait_for_writer() or stop_recording(True) has returned.
DrainReturned ==
    Returned("wait_for_writer", "ok")
        \/ (Returned("stop_recording", "ok") /\ call.wait)

\* C12: with writer_threads=1 the write attempts are made in the order in
\* which the jobs were enqueued, which is the order of their frames, and when
\* the drain (wait_for_writer or stop_recording(True)) has returned every job
\* enqueued has had its write attempt.
C12_OneWorkerWritesInOrder ==
    /\ \A i \in 1..Len(written) : written[i] = i
    /\ \A i, j \in 1..Len(written) :
          i < j => jobsLog[written[i]].frame <= jobsLog[written[j]].frame
    /\ DrainReturned => Len(written) = Len(jobsLog)

\* The drain has returned after the jobs of the frames 1, 2 and 3 of one
\* recording were written, to three destinations, in this order.
C12_Witness ==
    /\ DrainReturned
    /\ Len(written) = 3
    /\ \A i \in 1..3 :
          /\ jobsLog[written[i]].frame = i
          /\ jobsLog[written[i]].dest = Format(DefaultTarget, i)

\* The call in progress calls open() of what in this step.
Opens(what) ==
    calls' = calls /\ what \in call'.opened /\ what \notin call.opened

\* C13: whatever calls came before, the recorder calls open() of the device
\* only when the device is closed, and open() of the Writer Pool only when the
\* pool is closed and every worker it had has terminated; workers are started
\* by no other step of the caller, and their number never changes.  A step
\* of the caller that finds the device open and leaves it open leaves the
\* capture thread as it is, and one that finds the pool open and leaves it
\* open leaves its stop signal, its workers and its queue as they are.
C13_OpenOnlyWhenClosed ==
    [][/\ Opens("device") => ~devOpen
       /\ Opens("pool") => (~wOpen /\ \A w \in Workers : wk[w].st = "off")
       /\ (CallerStep /\ wk' # wk) => Opens("pool")
       /\ DOMAIN wk' = DOMAIN wk
       /\ (CallerStep /\ devOpen /\ devOpen')
             => (capPc' = capPc /\ cur' = cur /\ nframes' = nframes)
       /\ (CallerStep /\ wOpen /\ wOpen')
             => (wStop' = wStop /\ wk' = wk /\ queue' = queue)]_vars

\* start_recording called during a recording has returned without a call of
\* open(): the device and the pool are open as they were, and a worker still
\* holds the job it had taken.
C13_Witness ==
    /\ Returned("start_recording", "ok") /\ call.from = "Continuous"
    /\ call.opened = {}
    /\ devOpen /\ wOpen
    /\ \E w \in Workers : wk[w].st = "busy"

\* C14: under the fair scheduler every call of a public method returns (or
\* ends with the failure of the device raised): whenever the caller is inside
\* save_one_image, save_image_to, start_recording, stop_recording with either
\* value of wait_for_writer, or wait_for_writer, it is later between calls
\* again; also when wait_for_writer finds the pool closed or never opened.
C14_EveryCallReturns ==
    (pc # "idle") ~> (pc = "idle" /\ call.val # "running")

\* stop_recording(True) called during a recording has returned after it had
\* to wait for a job to be written and for the workers to terminate.
C14_Witness ==
    /\ Returned("stop_recording", "ok") /\ call.wait
    /\ call.from = "Continuous"
    /\ written # <<>>
    /\ \A w \in Workers : wk[w].st = "off"

\* How often the observer o occurs in the sequence of observers seq.
Times(o, seq) == Cardinality({i \in DOMAIN seq : seq[i] = o})

\* C15: every frame is delivered once to every observer registered when it
\* was acquired, and the frames are delivered one after the other in the
\* order of their acquisition, so that two observers registered during the
\* whole of a capture run are called equally often, once per frame.  The
\* observers called and those still to be called are together those
\* registered at the acquisition, a frame is acquired only when the delivery
\* of the one before is over, and a delivery is over only when no observer
\* is left to be called.
C15_EveryObserverEveryFrame ==
    [][/\ nframes' # nframes
             => /\ capPc = "idle"
                /\ cur'.id = cur.id + 1
                /\ cur'.got = <<>> /\ cur'.pending = devCallbacks
       /\ nframes' = nframes
             => \A o \in {"rec", "obs"} :
                   Times(o, cur'.got \o cur'.pending)
                       = Times(o, cur.got \o cur.pending)
       /\ capPc' = "idle" => cur'.pending = <<>>]_vars

\* The second frame of a recording has been delivered, once to _callback and
\* once to the second observer, as the first frame had been.
C15_Witness ==
    /\ capPc = "idle"
    /\ cur.id = 2 /\ cur.nth = 2
    /\ Times("rec", cur.got) = 1 /\ Times("obs", cur.got) = 1
    /\ Times("rec", devCallbacks) = 1 /\ Times("obs", devCallbacks) = 1
    /\ Returned("start_recording", "ok")

\* C16: when stop_recording(True) has returned, a frame for which _callback
\* was entered with success while the recorder was Continuous, the pool open
\* and the gate up, stop_recording being the caller's next call, has a job
\* and every job of it has been passed to a write attempt; also when
\* _callback was still running while stop_recording removed the callbacks
\* and closed the pool.
C16_NoFrameLostAtShutdown ==
    (Returned("stop_recording", "ok") /\ call.wait
       /\ cur.id > 0 /\ cur.ok /\ cur.enter = calls - 1)
        => /\ JobsOfFrames(cur.id, cur.id) # {}
           /\ JobsOfFrames(cur.id, cur.id) \subseteq WrittenJobs

\* stop_recording, save_image_to or save_one_image has returned and the
\* caller has made no call since: the device is closed.
ClosingCallReturned ==
    \/ Returned("stop_recording", "ok")
    \/ Returned("save_image_to", "True")
    \/ Returned("save_one_image", "path")

\* C17: once stop_recording, save_image_to or save_one_image has returned,
\* and until the caller's next call, _callback is not called and no job is
\* enqueued, whatever the threads do.
C17_NoCallbackAfterClose ==
    [][(ClosingCallReturned /\ ~CallerStep)
          => (cur'.inv = cur.inv /\ jobsLog' = jobsLog)]_vars

\* C18: in every reachable state _callback is registered with the device at
\* most once, whatever calls came before.
C18_CallbackRegisteredOnce == Times("rec", devCallbacks) <= 1

\* C19: whenever the caller is between calls, the device is open if and only
\* if _callback is registered with it; also after a call during which open()
\* of the device failed.
C19_OpenIffRegistered ==
    pc = "idle" => (devOpen <=> Times("rec", devCallbacks) >= 1)

\* start_recording has ended with the failure of open(), after an earlier
\* recording: the device is closed and has no observer.
C19_Witness ==
    /\ pc = "idle"
    /\ call.name = "start_recording" /\ call.cause = "openfail"
    /\ cur.id > 0
    /\ ~devOpen /\ devCallbacks = <<>>

\* This step enqueues a job.
Enqueues == Len(jobsLog') > Len(jobsLog)

\* The destination of the job this step enqueues.
EnqueuedDest == jobsLog'[Len(jobsLog')].dest

\* C20 as stated: every job enqueued during a call of save_image_to(path) or
\* save_one_image carries the path fixed when the call was entered, without
\* a time stamp put into it; a job enqueued during a Continuous recording
\* with a '{}' template carries the time stamp read in _callback.
C20_AsStated ==
    [][/\ calls' = calls => target' = target
       /\ (Enqueues /\ pc \in SingleShotPcs) => EnqueuedDest = target
       /\ (Enqueues /\ RecState = "Continuous" /\ target.hole)
             => EnqueuedDest = [name |-> target.name, hole |-> FALSE,
                                time |-> cur.iso]]_vars

\* C20 as amended: the target is fixed when a call is entered; a job enqueued
\* during save_one_image, or during save_image_to(path) with a path without
\* '{}', carries that path, so that the jobs of the call have one
\* destination; a job enqueued while the target holds '{}', during
\* save_image_to as during a recording, carries the target with the time
\* stamp read in _callback in the place of '{}'.
C20_SingleShotDestination ==
    [][/\ calls' = calls => target' = target
       /\ (Enqueues /\ pc \in SingleShotPcs /\ call.name = "save_one_image")
             => (~target.hole /\ EnqueuedDest = target)
       /\ (Enqueues /\ ~target.hole) => EnqueuedDest = target
       /\ (Enqueues /\ target.hole)
             => EnqueuedDest = [name |-> target.name, hole |-> FALSE,
                                time |-> cur.iso]]_vars

\* During save_one_image, with the pool open, a frame acquired during the
\* call has been enqueued with the path of the call as its destination.
C20_Witness ==
    /\ pc \in SingleShotPcs /\ call.name = "save_one_image"
    /\ cur.id > 0 /\ cur.calls0 = calls /\ capPc = "idle"
    /\ jobsLog # <<>>
    /\ jobsLog[Len(jobsLog)].frame = cur.id
    /\ jobsLog[Len(jobsLog)].dest = target
    /\ ~target.hole

=============================================================================
